---- MODULE Spec2Model ----
(***************************************************************************)
(* State-machine model of src/App.tsx (the App component): the React state *)
(* cells, the two mount effects on the 'shortsmind_saved' slot of          *)
(* localStorage, and the event handlers with the promise continuations of  *)
(* the asynchronous handlers.  One action is one handler run to its first  *)
(* await (or to its end) together with the re-render and the effects that  *)
(* the re-render triggers; one action is one promise continuation.         *)
(***************************************************************************)
EXTENDS Integers, Sequences, FiniteSets, Bags, TLC

VARIABLES
    category,         \* useState<ContentCategory>            App.tsx:19
    philosopherName,  \* useState('')                         App.tsx:21
    keywords,         \* useState('')                         App.tsx:22
    loading,          \* useState(false)                      App.tsx:23
    concepts,         \* useState<ShortsConcept[]>([])        App.tsx:24
    selectedConcept,  \* useState<ShortsConcept | null>(null) App.tsx:25
    previewImage,     \* useState<string | null>(null)        App.tsx:26
    imageLoading,     \* useState(false)                      App.tsx:27
    savedConcepts,    \* useState<SavedConcept[]>([])         App.tsx:29
    showSaved,        \* useState(false)                      App.tsx:30
    storage,          \* localStorage['shortsmind_saved']     App.tsx:36,48
    pc,               \* life cycle of the component: mount, loading, running, crashed
    pendingLoad,      \* state update queued by the load effect, applied by the next render
    recPending,       \* getConceptRecommendations calls awaiting settlement
    requestedCategory,\* the category argument of the latest such call    App.tsx:80
    imageReqs,        \* generateBackgroundImage calls awaiting settlement (a bag)
    lastDialog,       \* the alert()/confirm() dialog the last handler showed
    preReload,        \* the collection held when the page was last reloaded
    slotReads,        \* localStorage.getItem calls of this page        App.tsx:36
    audioLoading,     \* useState(false)                      App.tsx:28
    audioContextRef,  \* useRef<AudioContext | null>(null)    App.tsx:32
    audioReq,         \* the handleGenerateAudio call awaiting a settlement
    contextsCreated,  \* `new AudioContext` evaluations of this page   App.tsx:111
    played,           \* the context of the latest source.start()      App.tsx:119
    script,           \* a detailedScript handed to the caption extractor
    captions,         \* the text the caption extractor produced for it
    pcmBytes,         \* the bytes handed to decodeAudioData
    pcmRate,          \* the sample rate handed to decodeAudioData
    pcmChannels,      \* the channel count handed to decodeAudioData
    pcmBuffer         \* the AudioBuffer decodeAudioData produced

vars == <<category, philosopherName, keywords, loading, concepts, selectedConcept,
          previewImage, imageLoading, savedConcepts, showSaved, storage, pc,
          pendingLoad, recPending, requestedCategory, imageReqs, lastDialog,
          preReload, slotReads,
          audioLoading, audioContextRef, audioReq, contextsCreated, played,
          script, captions, pcmBytes, pcmRate, pcmChannels, pcmBuffer>>

(***************************************************************************)
(* Bounds of the model.                                                    *)
(***************************************************************************)
\* Image requests that may be in flight at once.
MaxImageReqs == 2
\* Date.now() readings are drawn from 1..MaxTime.
MaxTime == 1
\* Scripts handed to the caption extractor have up to MaxScriptLen characters.
MaxScriptLen == 6
\* PCM payloads have up to MaxBytes bytes and up to MaxChannels channels.
MaxBytes == 4
MaxChannels == 2

(***************************************************************************)
(* Data: types.ts (src/unnamed/part_000).                                  *)
(***************************************************************************)
ContentCategory == {"QUOTES", "SELF_IMPROVEMENT"}

\* A ShortsConcept, reduced to the fields the handlers read; a VisualScene is
\* reduced to its prompt.
MkConcept(id, title, hook, scenes) ==
    [id |-> id, title |-> title, hook |-> hook, visualScenes |-> scenes]

ConceptA  == MkConcept("c1", "A", "hookA", <<"promptA">>)
\* a different concept of a later batch that reuses id c1
ConceptA2 == MkConcept("c1", "A2", "hookA2", <<"promptA2">>)
ConceptB  == MkConcept("c2", "B", "hookB", <<"promptB">>)
\* a concept without scenes
ConceptC  == MkConcept("c3", "C", "hookC", <<>>)

\* a concept whose first scene has an empty prompt
ConceptE  == MkConcept("c2", "E", "hookE", <<"">>)

\* RecommendationResponse.concepts values the upstream service may return.
Batches == {<<ConceptA, ConceptB>>, <<ConceptA2, ConceptC>>}
\* the same, with a batch that holds the concept with the empty prompt
PreviewBatches == Batches \cup {<<ConceptE>>}

\* Text typed into the two inputs, as sequences of characters.
TextInputs == {<<>>, <<" ">>, <<"k">>}

\* null (selectedConcept, previewImage)
NULL == [null |-> TRUE]

\* The JavaScript values savedConcepts can hold: an array, null, or a number.
JArr(s) == [t |-> "array", v |-> s]
JNull == [t |-> "null", v |-> <<>>]
JNum == [t |-> "number", v |-> <<>>]
\* no value (no queued update, no reload yet)
NoValue == [t |-> "none", v |-> <<>>]

\* The text in the storage slot: absent (getItem returns null), a literal, or
\* a bracketed list of items that may have lost its closing bracket.
Absent == [kind |-> "absent", items |-> <<>>, closed |-> FALSE, lit |-> ""]
Literal(s) == [kind |-> "literal", items |-> <<>>, closed |-> FALSE, lit |-> s]
ArrayText(s, c) == [kind |-> "array", items |-> s, closed |-> c, lit |-> ""]

\* JSON.stringify(savedConcepts)
Stringify(x) ==
    CASE x.t = "array" -> ArrayText(x.v, TRUE)
      [] x.t = "null" -> Literal("null")
      [] OTHER -> Literal("5")

\* Whether JSON.parse(text) returns rather than throws.
Parses(text) ==
    \/ text.kind = "array" /\ text.closed
    \/ text.kind = "literal" /\ text.lit \in {"null", "5"}

\* JSON.parse(text), for a text that parses
Parse(text) ==
    CASE text.kind = "array" -> JArr(text.items)
      [] text.lit = "null" -> JNull
      [] OTHER -> JNum

\* `if (stored)`: null and the empty string are falsy
Truthy(text) == text.kind # "absent" /\ ~(text.kind = "literal" /\ text.lit = "")

\* Slot contents a fresh installation or a damaged profile can present.
InitialStorage ==
    {Absent, Literal(""), Literal("garbage"), Literal("null"), Literal("5"),
     ArrayText(<<>>, FALSE)}

\* audioContextRef.current === null; no playback yet
NoContext == 0
\* no audio preview is in progress
NoAudio == [stage |-> "none"]
\* no text produced yet; the text produced
NoText == [done |-> FALSE, text |-> <<>>]
Produced(t) == [done |-> TRUE, text |-> t]
\* no buffer produced yet
NoBuffer == [none |-> TRUE]
\* decodeAudioData(decodedBytes, ctx, 24000, 1)
SampleRate == 24000
Channels == 1

\* no recommendation has been requested on this page
NoCategory == "none"

NoDialog == [kind |-> "none"]
Alert(m) == [kind |-> "alert", msg |-> m]
Confirm(w, i, a) == [kind |-> "confirm", what |-> w, id |-> i, answer |-> a]

(***************************************************************************)
(* Pure helpers.                                                           *)
(***************************************************************************)
IsSpace(ch) == ch = " "

RECURSIVE TrimStart(_)
TrimStart(s) == IF s # <<>> /\ IsSpace(Head(s)) THEN TrimStart(Tail(s)) ELSE s

RECURSIVE TrimEnd(_)
TrimEnd(s) ==
    IF s # <<>> /\ IsSpace(s[Len(s)]) THEN TrimEnd(SubSeq(s, 1, Len(s) - 1)) ELSE s

\* String.prototype.trim
Trim(s) == TrimEnd(TrimStart(s))

\* a slip: the emptiness test without trim()
ValidationFailsNoTrim(cat, kw, ph) ==
    kw = <<>> /\ (cat = "SELF_IMPROVEMENT" \/ ph = <<>>)

\* !keywords.trim() && (category === 'SELF_IMPROVEMENT' || !philosopherName.trim())
ValidationFails(cat, kw, ph) ==
    Trim(kw) = <<>> /\ (cat = "SELF_IMPROVEMENT" \/ Trim(ph) = <<>>)

\* a slip: the title is always sent
PromptTitleOnly(c) == c.title

\* concept.visualScenes[0]?.prompt || concept.title
PromptOf(c) ==
    IF Len(c.visualScenes) > 0 /\ c.visualScenes[1] # ""
    THEN c.visualScenes[1] ELSE c.title

\* the image generateBackgroundImage resolves to for a prompt
ImageOf(prompt) == [image |-> prompt]

Range(s) == {s[i] : i \in 1..Len(s)}

\* a slip: only the newest entry is compared
FindByIdHeadOnly(lib, id) == lib # <<>> /\ lib[1].id = id

\* savedConcepts.find(c => c.id === id), as a truth value
FindById(lib, id) == \E i \in 1..Len(lib) : lib[i].id = id

\* a slip: the filter predicate inverted
FilterKeepId(lib, id) == SelectSeq(lib, LAMBDA c : c.id = id)

\* savedConcepts.filter(c => c.id !== id)
FilterOutId(lib, id) == SelectSeq(lib, LAMBDA c : c.id # id)

\* { ...selectedConcept, savedAt: Date.now(), category: category }
NewSaved(c, t, cat) ==
    [id |-> c.id, title |-> c.title, hook |-> c.hook, visualScenes |-> c.visualScenes,
     savedAt |-> t, category |-> cat]

\* Whether rendering throws: savedConcepts.length on null (App.tsx:199), and
\* savedConcepts.find on a non-array once a concept is selected (App.tsx:442).
RenderThrows(saved, selected) ==
    \/ saved.t = "null"
    \/ saved.t # "array" /\ selected # NULL

(***************************************************************************)
(* Initial state: the component is about to mount over some slot content.  *)
(***************************************************************************)
InitApp ==
    /\ category = "QUOTES"
    /\ philosopherName = <<>>
    /\ keywords = <<>>
    /\ loading = FALSE
    /\ concepts = <<>>
    /\ selectedConcept = NULL
    /\ previewImage = NULL
    /\ imageLoading = FALSE
    /\ savedConcepts = JArr(<<>>)
    /\ showSaved = FALSE
    /\ storage \in InitialStorage
    /\ pc = "mount"
    /\ pendingLoad = NoValue
    /\ recPending = 0
    /\ requestedCategory = NoCategory
    /\ imageReqs = EmptyBag
    /\ lastDialog = NoDialog
    /\ preReload = NoValue
    /\ slotReads = 0
    /\ audioLoading = FALSE
    /\ audioContextRef = NoContext
    /\ audioReq = NoAudio
    /\ contextsCreated = 0
    /\ played = NoContext

\* no pure function has been given an input
InitPure ==
    /\ script = <<>>
    /\ captions = NoText
    /\ pcmBytes = <<>>
    /\ pcmRate = SampleRate
    /\ pcmChannels = Channels
    /\ pcmBuffer = NoBuffer

Init == InitApp /\ InitPure

\* the React state cells a handler may leave alone
form == <<category, philosopherName, keywords>>
selection == <<selectedConcept, previewImage, imageLoading>>
startup == <<pc, pendingLoad, preReload, slotReads>>
requests == <<recPending, requestedCategory, imageReqs>>
audio == <<audioLoading, audioContextRef, audioReq, contextsCreated, played>>
\* the inputs and outputs of the pure functions, which no handler of the
\* state machine above touches
pure == <<script, captions, pcmBytes, pcmRate, pcmChannels, pcmBuffer>>
\* the component and its environment
app == <<form, loading, concepts, selection, savedConcepts, showSaved, storage,
         startup, requests, lastDialog, audio>>

(***************************************************************************)
(* Mount: the two effects run in order in one flush.  The load effect      *)
(* queues setSavedConcepts(JSON.parse(stored)); the persist effect writes  *)
(* the collection of the first render, which is empty.                     *)
(***************************************************************************)
\* what the load effect queues: the parsed value, or nothing
LoadEffect(stored) ==
    IF Truthy(stored) /\ Parses(stored) THEN Parse(stored) ELSE NoValue

\* a slip: `if (savedConcepts.length) localStorage.setItem(...)`
PersistSkipEmpty(saved) == IF saved = JArr(<<>>) THEN storage ELSE Stringify(saved)

\* what the persist effect writes for the collection of a render
PersistEffect(saved) == Stringify(saved)

Mount ==
    /\ pc = "mount"
    /\ pendingLoad' = LoadEffect(storage)
    /\ slotReads' = slotReads + 1
    /\ storage' = PersistEffect(savedConcepts)
    /\ pc' = IF pendingLoad' = NoValue THEN "running" ELSE "loading"
    /\ preReload' = IF pendingLoad' = NoValue THEN NoValue ELSE preReload
    /\ lastDialog' = NoDialog
    /\ UNCHANGED <<form, loading, concepts, selection, savedConcepts, showSaved, requests>>
    /\ UNCHANGED <<audio, pure>>

\* The render that applies the queued update, and the persist effect after it
\* (savedConcepts changed).  A render that throws unmounts the component.
RenderLoaded ==
    /\ pc = "loading"
    /\ savedConcepts' = pendingLoad
    /\ pendingLoad' = NoValue
    /\ preReload' = NoValue
    /\ IF RenderThrows(pendingLoad, selectedConcept)
       THEN pc' = "crashed" /\ UNCHANGED storage
       ELSE pc' = "running" /\ storage' = PersistEffect(pendingLoad)
    /\ lastDialog' = NoDialog
    /\ UNCHANGED <<form, loading, concepts, selection, showSaved, requests, slotReads>>
    /\ UNCHANGED <<audio, pure>>

\* The user reloads the page: memory starts afresh, the slot is kept, requests
\* of the old page are gone.
Reload ==
    /\ pc \in {"running", "crashed"}
    /\ preReload' = savedConcepts
    /\ category' = "QUOTES"
    /\ philosopherName' = <<>>
    /\ keywords' = <<>>
    /\ loading' = FALSE
    /\ concepts' = <<>>
    /\ selectedConcept' = NULL
    /\ previewImage' = NULL
    /\ imageLoading' = FALSE
    /\ savedConcepts' = JArr(<<>>)
    /\ showSaved' = FALSE
    /\ pc' = "mount"
    /\ pendingLoad' = NoValue
    /\ recPending' = 0
    /\ requestedCategory' = NoCategory
    /\ imageReqs' = EmptyBag
    /\ lastDialog' = NoDialog
    /\ slotReads' = 0
    /\ audioLoading' = FALSE
    /\ audioContextRef' = NoContext
    /\ audioReq' = NoAudio
    /\ contextsCreated' = 0
    /\ played' = NoContext
    /\ UNCHANGED <<storage, pure>>

(***************************************************************************)
(* The form and the library toggle.                                        *)
(***************************************************************************)
SetCategory(c) ==
    /\ pc = "running" /\ ~showSaved
    /\ category' = c
    /\ lastDialog' = NoDialog
    /\ UNCHANGED <<philosopherName, keywords, loading, concepts, selection,
                   savedConcepts, showSaved, storage, startup, requests>>
    /\ UNCHANGED <<audio, pure>>

SetPhilosopherName(p) ==
    /\ pc = "running" /\ ~showSaved /\ category = "QUOTES"
    /\ philosopherName' = p
    /\ lastDialog' = NoDialog
    /\ UNCHANGED <<category, keywords, loading, concepts, selection,
                   savedConcepts, showSaved, storage, startup, requests>>
    /\ UNCHANGED <<audio, pure>>

SetKeywords(k) ==
    /\ pc = "running" /\ ~showSaved
    /\ keywords' = k
    /\ lastDialog' = NoDialog
    /\ UNCHANGED <<category, philosopherName, loading, concepts, selection,
                   savedConcepts, showSaved, storage, startup, requests>>
    /\ UNCHANGED <<audio, pure>>

ToggleShowSaved ==
    /\ pc = "running"
    /\ showSaved' = ~showSaved
    /\ lastDialog' = NoDialog
    /\ UNCHANGED <<form, loading, concepts, selection, savedConcepts, storage,
                   startup, requests>>
    /\ UNCHANGED <<audio, pure>>

(***************************************************************************)
(* handleRecommend (App.tsx:69-88) and the settlement of its request.      *)
(***************************************************************************)
\* a slip: the button without `disabled={loading}`
RecommendEnabledWhileLoading == pc = "running" /\ ~showSaved

\* The button is rendered in the form view and disabled while loading.
RecommendEnabled == pc = "running" /\ ~showSaved /\ ~loading

\* validation failure: alert and return
RecommendInvalid ==
    /\ RecommendEnabled
    /\ ValidationFails(category, keywords, philosopherName)
    /\ lastDialog' = Alert("validation")
    /\ UNCHANGED <<form, loading, concepts, selection, savedConcepts, showSaved,
                   storage, startup, requests>>
    /\ UNCHANGED <<audio, pure>>

\* validation passed: the state is reset and the request is issued
RecommendIssue ==
    /\ RecommendEnabled
    /\ ~ValidationFails(category, keywords, philosopherName)
    /\ loading' = TRUE
    /\ concepts' = <<>>
    /\ selectedConcept' = NULL
    /\ previewImage' = NULL
    /\ showSaved' = FALSE
    /\ recPending' = recPending + 1
    /\ requestedCategory' = category
    /\ lastDialog' = NoDialog
    /\ UNCHANGED <<form, imageLoading, savedConcepts, storage, startup, imageReqs>>
    /\ UNCHANGED <<audio, pure>>

handleRecommend == RecommendInvalid \/ RecommendIssue

\* the request resolves with a batch: setConcepts(result.concepts); finally
RecommendResolve(batch) ==
    /\ pc = "running" /\ recPending > 0
    /\ recPending' = recPending - 1
    /\ concepts' = batch
    /\ loading' = FALSE
    /\ lastDialog' = NoDialog
    /\ UNCHANGED <<form, selection, savedConcepts, showSaved, storage, startup, requestedCategory, imageReqs>>
    /\ UNCHANGED <<audio, pure>>

\* a slip: the failed request is issued again
RecommendRejectRetry ==
    /\ pc = "running" /\ recPending > 0
    /\ lastDialog' = Alert("recommendError")
    /\ UNCHANGED <<form, loading, concepts, selection, savedConcepts, showSaved, storage,
                   startup, requests>>
    /\ UNCHANGED <<audio, pure>>

\* the request fails: catch (alert); finally
RecommendReject ==
    /\ pc = "running" /\ recPending > 0
    /\ recPending' = recPending - 1
    /\ loading' = FALSE
    /\ lastDialog' = Alert("recommendError")
    /\ UNCHANGED <<form, concepts, selection, savedConcepts, showSaved, storage,
                   startup, requestedCategory, imageReqs>>
    /\ UNCHANGED <<audio, pure>>

(***************************************************************************)
(* handleSelectConcept (App.tsx:90-102) and the settlement of its request. *)
(***************************************************************************)
\* the request of one call: the id of the concept of the closure and the prompt sent
ImageRequest(concept) == [id |-> concept.id, prompt |-> PromptOf(concept)]

\* The synchronous part, up to the await.  The render that follows throws when
\* the collection is not an array (App.tsx:442); the component is then gone and
\* its pending continuations have nothing to update.
handleSelectConcept(concept) ==
    /\ selectedConcept' = concept
    /\ previewImage' = NULL
    /\ imageLoading' = TRUE
    /\ IF RenderThrows(savedConcepts, concept)
       THEN pc' = "crashed" /\ imageReqs' = EmptyBag /\ recPending' = 0
       ELSE /\ pc' = "running"
            /\ imageReqs' = imageReqs (+) SetToBag({ImageRequest(concept)})
            /\ recPending' = recPending
    /\ lastDialog' = NoDialog
    /\ UNCHANGED <<philosopherName, keywords, loading, concepts, savedConcepts,
                   showSaved, storage, pendingLoad, preReload, slotReads,
                   requestedCategory>>
    /\ UNCHANGED <<audio, pure>>

\* a card of the recommendation list is clicked (App.tsx:369-375)
SelectFromBatch(i) ==
    /\ pc = "running" /\ ~showSaved
    /\ i \in 1..Len(concepts)
    /\ handleSelectConcept(concepts[i])
    /\ UNCHANGED category

\* a card of the library is clicked (App.tsx:326-332)
SelectFromLibrary(i) ==
    /\ pc = "running" /\ showSaved
    /\ savedConcepts.t = "array"
    /\ i \in 1..Len(savedConcepts.v)
    /\ category' = savedConcepts.v[i].category
    /\ handleSelectConcept(savedConcepts.v[i])

\* what the continuation stores when the image arrives: setPreviewImage(img)
AcceptImage(req, current, preview) == ImageOf(req.prompt)

\* the request resolves: setPreviewImage(img); finally setImageLoading(false)
ImageResolve(req) ==
    /\ pc = "running" /\ BagIn(req, imageReqs)
    /\ imageReqs' = imageReqs (-) SetToBag({req})
    /\ previewImage' = AcceptImage(req, selectedConcept, previewImage)
    /\ imageLoading' = FALSE
    /\ lastDialog' = NoDialog
    /\ UNCHANGED <<form, loading, concepts, selectedConcept, savedConcepts, showSaved,
                   storage, startup, requestedCategory, recPending>>
    /\ UNCHANGED <<audio, pure>>

\* a slip: the flag is not reset on the error path
ImageRejectNoFinally(req) ==
    /\ pc = "running" /\ BagIn(req, imageReqs)
    /\ imageReqs' = imageReqs (-) SetToBag({req})
    /\ lastDialog' = NoDialog
    /\ UNCHANGED <<form, loading, concepts, selection, savedConcepts,
                   showSaved, storage, startup, requestedCategory, recPending>>
    /\ UNCHANGED <<audio, pure>>

\* the request fails: catch (console.error); finally setImageLoading(false)
ImageReject(req) ==
    /\ pc = "running" /\ BagIn(req, imageReqs)
    /\ imageReqs' = imageReqs (-) SetToBag({req})
    /\ imageLoading' = FALSE
    /\ lastDialog' = NoDialog
    /\ UNCHANGED <<form, loading, concepts, selectedConcept, previewImage, savedConcepts,
                   showSaved, storage, startup, requestedCategory, recPending>>
    /\ UNCHANGED <<audio, pure>>

(***************************************************************************)
(* handleGenerateAudio (App.tsx:104-127): the click up to the first await, *)
(* the continuation after generateSpeech up to the second await, and the   *)
(* continuation after decodeAudioData.                                     *)
(***************************************************************************)
\* a slip: the voices exchanged
VoiceSwapped(cat) == IF cat = "QUOTES" THEN "Puck" ELSE "Kore"

\* category === 'QUOTES' ? 'Kore' : 'Puck'
VoiceFor(cat) == IF cat = "QUOTES" THEN "Kore" ELSE "Puck"

\* generateSpeech(selectedConcept.hook, voice)
SpeechRequest(concept, cat) ==
    [stage |-> "speech", text |-> concept.hook, voice |-> VoiceFor(cat)]

\* decodeAudioData(decodedBytes, ctx, 24000, 1), with the ctx of the closure
DecodeRequest(req, ctx) ==
    [stage |-> "decode", text |-> req.text, voice |-> req.voice, ctx |-> ctx,
     sampleRate |-> SampleRate, numChannels |-> Channels]

\* What generateSpeech resolves to: nothing, base64 text of PCM bytes, or text
\* that decodeBase64 rejects.
SpeechData == {"none", "pcm", "malformed"}

\* a slip: a context for every preview
NeedsContextAlways(ref) == TRUE

\* if (!audioContextRef.current)
NeedsContext(ref) == ref = NoContext

\* The button is part of the preview, rendered for a selection, and disabled
\* while audioLoading; the handler returns at once without a selection.
handleGenerateAudio ==
    /\ pc = "running" /\ selectedConcept # NULL /\ ~audioLoading
    /\ audioLoading' = TRUE
    /\ audioReq' = SpeechRequest(selectedConcept, category)
    /\ lastDialog' = NoDialog
    /\ UNCHANGED <<audioContextRef, contextsCreated, played>>
    /\ UNCHANGED <<form, loading, concepts, selection, savedConcepts, showSaved,
                   storage, startup, requests, pure>>

\* the context is created when the ref holds none
EnsureContext ==
    IF NeedsContext(audioContextRef)
    THEN contextsCreated' = contextsCreated + 1 /\ audioContextRef' = contextsCreated'
    ELSE UNCHANGED <<contextsCreated, audioContextRef>>

\* generateSpeech resolves
SpeechResolve(data) ==
    /\ pc = "running" /\ audioReq.stage = "speech"
    /\ CASE data = "none" ->
               /\ audioLoading' = FALSE /\ audioReq' = NoAudio
               /\ lastDialog' = NoDialog
               /\ UNCHANGED <<contextsCreated, audioContextRef>>
          [] data = "malformed" ->
               /\ EnsureContext
               /\ audioLoading' = FALSE /\ audioReq' = NoAudio
               /\ lastDialog' = Alert("audioError")
          [] OTHER ->
               /\ EnsureContext
               /\ audioReq' = DecodeRequest(audioReq, audioContextRef')
               /\ lastDialog' = NoDialog
               /\ UNCHANGED audioLoading
    /\ UNCHANGED <<played, form, loading, concepts, selection, savedConcepts, showSaved,
                   storage, startup, requests, pure>>

\* a slip: the flag is not reset on the error path
SpeechRejectNoFinally ==
    /\ pc = "running" /\ audioReq.stage = "speech"
    /\ audioReq' = NoAudio
    /\ lastDialog' = Alert("audioError")
    /\ UNCHANGED <<audioLoading, audioContextRef, contextsCreated, played>>
    /\ UNCHANGED <<form, loading, concepts, selection, savedConcepts, showSaved,
                   storage, startup, requests, pure>>

\* generateSpeech fails: catch (alert); finally
SpeechReject ==
    /\ pc = "running" /\ audioReq.stage = "speech"
    /\ audioLoading' = FALSE /\ audioReq' = NoAudio
    /\ lastDialog' = Alert("audioError")
    /\ UNCHANGED <<audioContextRef, contextsCreated, played>>
    /\ UNCHANGED <<form, loading, concepts, selection, savedConcepts, showSaved,
                   storage, startup, requests, pure>>

\* decodeAudioData resolves: the source is created on ctx and started; finally
DecodeResolve ==
    /\ pc = "running" /\ audioReq.stage = "decode"
    /\ played' = audioReq.ctx
    /\ audioLoading' = FALSE /\ audioReq' = NoAudio
    /\ lastDialog' = NoDialog
    /\ UNCHANGED <<audioContextRef, contextsCreated>>
    /\ UNCHANGED <<form, loading, concepts, selection, savedConcepts, showSaved,
                   storage, startup, requests, pure>>

\* a slip: the flag is not reset on the error path
DecodeRejectNoFinally ==
    /\ pc = "running" /\ audioReq.stage = "decode"
    /\ audioReq' = NoAudio
    /\ lastDialog' = Alert("audioError")
    /\ UNCHANGED <<audioLoading, audioContextRef, contextsCreated, played>>
    /\ UNCHANGED <<form, loading, concepts, selection, savedConcepts, showSaved,
                   storage, startup, requests, pure>>

\* decodeAudioData fails: catch (alert); finally
DecodeReject ==
    /\ pc = "running" /\ audioReq.stage = "decode"
    /\ audioLoading' = FALSE /\ audioReq' = NoAudio
    /\ lastDialog' = Alert("audioError")
    /\ UNCHANGED <<audioContextRef, contextsCreated, played>>
    /\ UNCHANGED <<form, loading, concepts, selection, savedConcepts, showSaved,
                   storage, startup, requests, pure>>

(***************************************************************************)
(* decodeAudioData (services/geminiService, imported at App.tsx:9 and      *)
(* called at App.tsx:115): signed 16-bit little-endian PCM, interleaved by *)
(* channel, to an AudioBuffer.  A sample is kept as the fraction it is.    *)
(***************************************************************************)
Int16Scale == 32768

\* the signed 16-bit value of two bytes, low byte first
Int16(lo, hi) ==
    LET u == lo + 256 * hi
    IN  IF u >= Int16Scale THEN u - 2 * Int16Scale ELSE u

decodeAudioData(data, sampleRate, numChannels) ==
    LET frameCount == (Len(data) \div 2) \div numChannels
        sample(k) == [num |-> Int16(data[2 * k - 1], data[2 * k]), den |-> Int16Scale]
    IN  [sampleRate |-> sampleRate,
         numberOfChannels |-> numChannels,
         channelData |-> [c \in 1..numChannels |->
                            [i \in 1..frameCount |-> sample((i - 1) * numChannels + c)]]]

\* a slip: the preview asks for two channels
DecodeArgsStereo == [sampleRate |-> SampleRate, numChannels |-> Channels + 1]

\* the arguments of the call of the preview: (decodedBytes, ctx, 24000, 1)
DecodeArgs == [sampleRate |-> SampleRate, numChannels |-> Channels]

\* the function applied to the payload with a caller's rate and channel count
DecodeStep ==
    /\ pcmBuffer = NoBuffer
    /\ pcmBuffer' = [caller |-> "any",
                     buffer |-> decodeAudioData(pcmBytes, pcmRate, pcmChannels)]
    /\ UNCHANGED <<app, script, captions, pcmBytes, pcmRate, pcmChannels>>

\* the function applied to the payload as the preview calls it
PreviewDecodeStep ==
    /\ pcmBuffer = NoBuffer
    /\ pcmRate' = DecodeArgs.sampleRate
    /\ pcmChannels' = DecodeArgs.numChannels
    /\ pcmBuffer' = [caller |-> "preview",
                     buffer |-> decodeAudioData(pcmBytes, pcmRate', pcmChannels')]
    /\ UNCHANGED <<app, script, captions, pcmBytes>>

(***************************************************************************)
(* The library: handleSaveConcept (App.tsx:150-167), handleDeleteSaved     *)
(* (App.tsx:169-178) and the clear button (App.tsx:317-321).  Each ends    *)
(* with the persist effect of the render it causes (App.tsx:47-49).        *)
(***************************************************************************)
\* a slip: [...savedConcepts, newSaved]
AppendSaved(entry, lib) == lib \o <<entry>>

\* [newSaved, ...savedConcepts]
PrependSaved(entry, lib) == <<entry>> \o lib

\* a slip: a save of an existing id refreshes the stored entry
handleSaveUpsert(t) ==
    /\ pc = "running" /\ selectedConcept # NULL
    /\ IF FindById(savedConcepts.v, selectedConcept.id)
       THEN /\ lastDialog' = Alert("already")
            /\ savedConcepts' =
                   JArr([i \in 1..Len(savedConcepts.v) |->
                           IF savedConcepts.v[i].id = selectedConcept.id
                           THEN NewSaved(selectedConcept, t, category)
                           ELSE savedConcepts.v[i]])
            /\ storage' = PersistEffect(savedConcepts')
       ELSE /\ savedConcepts' =
                   JArr(PrependSaved(NewSaved(selectedConcept, t, category), savedConcepts.v))
            /\ storage' = PersistEffect(savedConcepts')
            /\ lastDialog' = Alert("saved")
    /\ UNCHANGED <<form, loading, concepts, selection, showSaved, startup, requests>>
    /\ UNCHANGED <<audio, pure>>

\* The save button is part of the detail card, rendered for a selection.
handleSaveConcept(t) ==
    /\ pc = "running" /\ selectedConcept # NULL
    /\ IF FindById(savedConcepts.v, selectedConcept.id)
       THEN /\ lastDialog' = Alert("already")
            /\ UNCHANGED <<savedConcepts, storage>>
       ELSE /\ savedConcepts' =
                   JArr(PrependSaved(NewSaved(selectedConcept, t, category), savedConcepts.v))
            /\ storage' = PersistEffect(savedConcepts')
            /\ lastDialog' = Alert("saved")
    /\ UNCHANGED <<form, loading, concepts, selection, showSaved, startup, requests>>
    /\ UNCHANGED <<audio, pure>>

\* The delete button of a library card; confirm() is answered by the user.
handleDeleteSaved(id, answer) ==
    /\ pc = "running" /\ showSaved
    /\ savedConcepts.t = "array"
    /\ \E i \in 1..Len(savedConcepts.v) : savedConcepts.v[i].id = id
    /\ lastDialog' = Confirm("delete", id, answer)
    /\ IF answer
       THEN /\ savedConcepts' = JArr(FilterOutId(savedConcepts.v, id))
            /\ storage' = PersistEffect(savedConcepts')
            /\ IF selectedConcept # NULL /\ selectedConcept.id = id
               THEN selectedConcept' = NULL /\ previewImage' = NULL
               ELSE UNCHANGED <<selectedConcept, previewImage>>
       ELSE UNCHANGED <<savedConcepts, storage, selectedConcept, previewImage>>
    /\ UNCHANGED <<form, loading, concepts, imageLoading, showSaved, startup, requests>>
    /\ UNCHANGED <<audio, pure>>

\* The clear button, rendered in the library view for a non-empty library.
ClearLibrary(answer) ==
    /\ pc = "running" /\ showSaved
    /\ savedConcepts.t = "array" /\ Len(savedConcepts.v) > 0
    /\ lastDialog' = Confirm("clear", "", answer)
    /\ IF answer
       THEN savedConcepts' = JArr(<<>>) /\ storage' = PersistEffect(savedConcepts')
       ELSE UNCHANGED <<savedConcepts, storage>>
    /\ UNCHANGED <<form, loading, concepts, selection, showSaved, startup, requests>>
    /\ UNCHANGED <<audio, pure>>

\* alert() and confirm() are modal: nothing else runs until the dialog is closed.
Dismiss ==
    /\ lastDialog # NoDialog
    /\ lastDialog' = NoDialog
    /\ UNCHANGED <<form, loading, concepts, selection, savedConcepts, showSaved,
                   storage, startup, requests>>
    /\ UNCHANGED <<audio, pure>>

(***************************************************************************)
(* copyCaptions (App.tsx:129-148): the extraction of the caption lines.    *)
(* A text is a sequence of characters; the marker '[자막]' is one token,    *)
(* which loses nothing: the marker cannot overlap itself.                  *)
(***************************************************************************)
Marker == "[caption]"
Quote == "\""
Newline == "\n"

\* String.prototype.split(sep)
RECURSIVE Split(_, _)
Split(s, sep) ==
    IF \E i \in 1..Len(s) : s[i] = sep
    THEN LET i == CHOOSE k \in 1..Len(s) : s[k] = sep /\ \A j \in 1..(k - 1) : s[j] # sep
         IN  <<SubSeq(s, 1, i - 1)>> \o Split(SubSeq(s, i + 1, Len(s)), sep)
    ELSE <<s>>

\* Array.prototype.join(sep)
RECURSIVE Join(_, _)
Join(parts, sep) ==
    IF parts = <<>> THEN <<>>
    ELSE IF Len(parts) = 1 THEN parts[1]
    ELSE parts[1] \o <<sep>> \o Join(Tail(parts), sep)

\* l.includes('[자막]')
Includes(l, ch) == \E i \in 1..Len(l) : l[i] = ch

\* .replace(/^"|"$/g, ''): one quote at the start and one at the end
StripQuotes(s) ==
    LET lead == s # <<>> /\ s[1] = Quote
        trail == Len(s) > 1 /\ s[Len(s)] = Quote
    IN  SubSeq(s, IF lead THEN 2 ELSE 1, IF trail THEN Len(s) - 1 ELSE Len(s))

\* a slip: parts[0], the text before the marker
CaptionBeforeMarker(l) ==
    LET parts == Split(l, Marker)
    IN  IF Len(parts) > 1 THEN StripQuotes(Trim(parts[1])) ELSE <<>>

\* parts.length > 1 ? parts[1].trim().replace(/^"|"$/g, '') : ''
CaptionOf(l) ==
    LET parts == Split(l, Marker)
    IN  IF Len(parts) > 1 THEN StripQuotes(Trim(parts[2])) ELSE <<>>

\* split('\n').filter(includes).map(...).filter(Boolean).join('\n')
ExtractCaptions(text) ==
    LET lines == SelectSeq(Split(text, Newline), LAMBDA l : Includes(l, Marker))
        mapped == [i \in 1..Len(lines) |-> CaptionOf(lines[i])]
    IN  Join(SelectSeq(mapped, LAMBDA c : c # <<>>), Newline)

\* the extraction applied to the script
ExtractStep ==
    /\ captions = NoText
    /\ captions' = Produced(ExtractCaptions(script))
    /\ UNCHANGED <<app, script, pcmBytes, pcmRate, pcmChannels, pcmBuffer>>

\* each line of the extracted text is given the marker again and the result is
\* taken as the next script
Rewrap(text) ==
    LET lines == Split(text, Newline)
    IN  Join([i \in 1..Len(lines) |-> <<Marker>> \o lines[i]], Newline)

RewrapStep ==
    /\ captions # NoText
    /\ script' = Rewrap(captions.text)
    /\ captions' = NoText
    /\ UNCHANGED <<app, pcmBytes, pcmRate, pcmChannels, pcmBuffer>>

(***************************************************************************)
(* The specifications.  The handlers are the same in both; each draws the  *)
(* inputs of the environment from its own sets.                            *)
(***************************************************************************)
Ids == {"c1", "c2", "c3"}

\* the requests a settlement may pick
RequestPool ==
    {ImageRequest(c) : c \in {ConceptA, ConceptA2, ConceptB, ConceptC, ConceptE}}

\* Date.now() readings
Times == 1..MaxTime

\* no dialog is open
Idle == lastDialog = NoDialog

\* no dialog is open and no image request is in flight
Settled == Idle /\ imageReqs = EmptyBag

\* The library in full: startup over every slot content, reload, save, delete
\* and clear, with recommendations and selections.  The user types a keyword
\* only, and an image request settles before the user's next action.
NextLibrary ==
    \/ Settled /\ Mount
    \/ Settled /\ RenderLoaded
    \/ Settled /\ Reload
    \/ Settled /\ \E c \in ContentCategory : SetCategory(c)
    \/ Settled /\ SetKeywords(<<"k">>)
    \/ Settled /\ ToggleShowSaved
    \/ Settled /\ RecommendInvalid
    \/ Settled /\ RecommendIssue
    \/ Settled /\ \E b \in Batches : RecommendResolve(b)
    \/ Settled /\ RecommendReject
    \/ Settled /\ \E i \in 1..2 : SelectFromBatch(i)
    \/ Settled /\ \E i \in 1..3 : SelectFromLibrary(i)
    \/ Settled /\ \E t \in Times : handleSaveConcept(t)
    \/ Settled /\ \E id \in Ids, a \in BOOLEAN : handleDeleteSaved(id, a)
    \/ Settled /\ \E a \in BOOLEAN : ClearLibrary(a)
    \/ Idle /\ \E r \in RequestPool : ImageResolve(r)
    \/ Idle /\ \E r \in RequestPool : ImageReject(r)
    \/ Dismiss

SpecLibrary == Init /\ [][NextLibrary]_vars

\* The session without the library: both inputs are typed freely, and up to
\* MaxImageReqs image requests are in flight while the user goes on.
NextPreview ==
    \/ Idle /\ Mount
    \/ Idle /\ RenderLoaded
    \/ Idle /\ \E c \in ContentCategory : SetCategory(c)
    \/ Idle /\ \E p \in TextInputs : SetPhilosopherName(p)
    \/ Idle /\ \E k \in TextInputs : SetKeywords(k)
    \/ Idle /\ ToggleShowSaved
    \/ Idle /\ RecommendInvalid
    \/ Idle /\ RecommendIssue
    \/ Idle /\ \E b \in PreviewBatches : RecommendResolve(b)
    \/ Idle /\ RecommendReject
    \/ Idle /\ \E i \in 1..2 :
          BagCardinality(imageReqs) < MaxImageReqs /\ SelectFromBatch(i)
    \/ Idle /\ \E r \in RequestPool : ImageResolve(r)
    \/ Idle /\ \E r \in RequestPool : ImageReject(r)
    \/ Dismiss

SpecPreview == Init /\ [][NextPreview]_vars

\* The audio preview: recommendations, selections and the category buttons,
\* with the audio preview and its two continuations.  Up to MaxImageReqs image
\* requests are in flight while the user selects, recommends and previews.
NextAudio ==
    \/ Settled /\ Mount
    \/ Settled /\ RenderLoaded
    \/ Settled /\ \E c \in ContentCategory : SetCategory(c)
    \/ Settled /\ SetKeywords(<<"k">>)
    \/ Idle /\ RecommendIssue
    \/ Idle /\ \E b \in Batches : RecommendResolve(b)
    \/ Idle /\ RecommendReject
    \/ Idle /\ \E i \in 1..2 :
          BagCardinality(imageReqs) < MaxImageReqs /\ SelectFromBatch(i)
    \/ Idle /\ \E r \in RequestPool : ImageResolve(r)
    \/ Idle /\ \E r \in RequestPool : ImageReject(r)
    \/ Idle /\ handleGenerateAudio
    \/ Idle /\ \E d \in SpeechData : SpeechResolve(d)
    \/ Idle /\ SpeechReject
    \/ Idle /\ DecodeResolve
    \/ Idle /\ DecodeReject
    \/ Dismiss

SpecAudio == Init /\ [][NextAudio]_vars

\* the settlements of the three kinds of request
RecommendSettles == Idle /\ ((\E b \in Batches : RecommendResolve(b)) \/ RecommendReject)
ImageSettles == Idle /\ \E r \in RequestPool : ImageResolve(r) \/ ImageReject(r)
AudioSettles ==
    Idle /\ ((\E d \in SpeechData : SpeechResolve(d)) \/ SpeechReject
                \/ DecodeResolve \/ DecodeReject)

\* The three kinds of request over an empty slot and under one category, where
\* every request that was issued settles and every dialog is closed: a
\* continuation runs once no dialog blocks the page.
InitFlags == Init /\ storage = Absent

NextFlags ==
    \/ Settled /\ Mount
    \/ Settled /\ SetKeywords(<<"k">>)
    \/ Idle /\ RecommendIssue
    \/ Idle /\ \E b \in Batches : RecommendResolve(b)
    \/ Idle /\ RecommendReject
    \/ Idle /\ \E i \in 1..2 :
          BagCardinality(imageReqs) < MaxImageReqs /\ SelectFromBatch(i)
    \/ Idle /\ \E r \in RequestPool : ImageResolve(r)
    \/ Idle /\ \E r \in RequestPool : ImageReject(r)
    \/ Idle /\ handleGenerateAudio
    \/ Idle /\ \E d \in SpeechData : SpeechResolve(d)
    \/ Idle /\ SpeechReject
    \/ Idle /\ DecodeResolve
    \/ Idle /\ DecodeReject
    \/ Dismiss

SpecFlags ==
    /\ InitFlags /\ [][NextFlags]_vars
    /\ WF_vars(Dismiss)
    /\ SF_vars(RecommendSettles)
    /\ SF_vars(ImageSettles)
    /\ SF_vars(AudioSettles)

\* Saving from the recommendation list over an empty slot: every selection is
\* a concept of the batch on display, whose request carried requestedCategory.
NextSave ==
    \/ Settled /\ Mount
    \/ Settled /\ \E c \in ContentCategory : SetCategory(c)
    \/ Settled /\ SetKeywords(<<"k">>)
    \/ Settled /\ RecommendIssue
    \/ Settled /\ \E b \in Batches : RecommendResolve(b)
    \/ Settled /\ \E i \in 1..2 : SelectFromBatch(i)
    \/ Idle /\ \E r \in RequestPool : ImageResolve(r)
    \/ Idle /\ \E r \in RequestPool : ImageReject(r)
    \/ Settled /\ \E t \in Times : handleSaveConcept(t)
    \/ Dismiss

SpecSave == InitFlags /\ [][NextSave]_vars

\* The caption extractor alone, over every script of up to MaxScriptLen
\* characters.
ScriptAlphabet == {Marker, Quote, Newline, " ", "a"}

Scripts == UNION {[1..n -> ScriptAlphabet] : n \in 0..MaxScriptLen}

InitCaptions ==
    /\ InitApp /\ storage = Absent
    /\ script \in Scripts
    /\ captions = NoText
    /\ pcmBytes = <<>> /\ pcmRate = SampleRate /\ pcmChannels = Channels
    /\ pcmBuffer = NoBuffer

NextCaptions ==
    \/ ExtractStep
    \/ RewrapStep

SpecCaptions == InitCaptions /\ [][NextCaptions]_vars

\* The PCM decoder alone, over every payload of up to MaxBytes bytes.
ByteValues == {0, 127, 128, 255}

Payloads == UNION {[1..n -> ByteValues] : n \in 0..MaxBytes}

SampleRates == {SampleRate, 2 * SampleRate}

InitPcm ==
    /\ InitApp /\ storage = Absent
    /\ script = <<>> /\ captions = NoText
    /\ pcmBytes \in Payloads
    /\ pcmRate \in SampleRates
    /\ pcmChannels \in 1..MaxChannels
    /\ pcmBuffer = NoBuffer

NextPcm ==
    \/ DecodeStep
    \/ PreviewDecodeStep

SpecPcm == InitPcm /\ [][NextPcm]_vars

(***************************************************************************)
(* Properties.                                                             *)
(***************************************************************************)
\* the entries of the library, when savedConcepts is an array
Library == IF savedConcepts.t = "array" THEN savedConcepts.v ELSE <<>>

\* a text that is empty or holds white space only
Blank(s) == \A i \in 1..Len(s) : s[i] = " "

\* the last handler was handleSaveConcept / handleDeleteSaved, told by its dialog
SaveStep == Idle /\ lastDialog'.kind = "alert" /\ lastDialog'.msg \in {"saved", "already"}
DeleteStep == Idle /\ lastDialog'.kind = "confirm" /\ lastDialog'.what = "delete"

\* C1: while a concept is selected, the preview is empty or the image made for
\* that concept's prompt; a late response for an earlier selection never shows.
StaleSelectionSuppressed ==
    (selectedConcept # NULL /\ previewImage # NULL)
        => previewImage = ImageOf(PromptOf(selectedConcept))

\* C2: the library never holds two entries with the same id.
NoDuplicateIds ==
    \A i, j \in 1..Len(Library) : i # j => Library[i].id # Library[j].id

\* C2 witness: a second save of a stored id was refused with two entries stored.
DuplicateSaveRefused ==
    /\ Len(Library) >= 2
    /\ lastDialog = Alert("already")

\* C3: a save of an id that is stored answers "already" and leaves the
\* collection and the slot as they were.
SaveExistingIsNoOp ==
    [][SaveStep /\ (\E e \in Range(Library) : e.id = selectedConcept.id)
         => /\ lastDialog' = Alert("already")
            /\ savedConcepts' = savedConcepts
            /\ storage' = storage]_vars

\* C3 witness: the refused concept is another concept that reuses a stored id.
ReusedIdRefused ==
    /\ lastDialog = Alert("already")
    /\ selectedConcept # NULL
    /\ \E e \in Range(Library) :
          e.id = selectedConcept.id /\ e.title # selectedConcept.title

\* new holds entries of old only, in the order they have in old
KeepsOrder(old, new) ==
    \A i, j \in 1..Len(new) : i < j =>
        \E a, b \in 1..Len(old) : a < b /\ old[a] = new[i] /\ old[b] = new[j]

\* C4: a successful save puts the entry of the selected concept in front of the
\* unchanged earlier entries; a delete keeps the order of what remains.
SavePrependsRemoveKeepsOrder ==
    [][/\ (Idle /\ lastDialog' = Alert("saved")) =>
            /\ Len(savedConcepts'.v) = Len(savedConcepts.v) + 1
            /\ Tail(savedConcepts'.v) = savedConcepts.v
            /\ Head(savedConcepts'.v).id = selectedConcept.id
            /\ Head(savedConcepts'.v).title = selectedConcept.title
       /\ DeleteStep => KeepsOrder(savedConcepts.v, savedConcepts'.v)]_vars

\* C4 witness: three saves of distinct ids, the last one just made.
ThreeSaved ==
    /\ lastDialog = Alert("saved")
    /\ Len(Library) = 3
    /\ Library[1].id = "c3" /\ Library[2].id = "c2" /\ Library[3].id = "c1"

\* C5: startup over a slot that does not hold an array of entries ends running
\* with an empty library.
FailOpenStartup ==
    [][/\ (pc = "mount" /\ Truthy(storage) /\ ~Parses(storage))
            => (pc' = "running" /\ savedConcepts' = JArr(<<>>))
       /\ (pc = "loading" /\ pendingLoad.t # "array")
            => (pc' = "running" /\ savedConcepts' = JArr(<<>>))]_vars

\* C6: startup after a reload ends with the collection held before the reload,
\* and no step of startup replaces a non-empty stored collection by an empty one.
ReloadStable ==
    [][/\ (pc \in {"mount", "loading"} /\ pc' \notin {"mount", "loading"}
             /\ preReload.t = "array")
            => (pc' = "running" /\ savedConcepts' = preReload)
       /\ (pc \in {"mount", "loading"} /\ Parses(storage)
             /\ Parse(storage).t = "array" /\ Parse(storage).v # <<>>)
            => storage' # ArrayText(<<>>, TRUE)]_vars

\* C7: a selected concept is in the current batch or in the library (by id).
SelectionIsMember ==
    selectedConcept # NULL =>
        \/ \E c \in Range(concepts) : c.id = selectedConcept.id
        \/ \E e \in Range(Library) : e.id = selectedConcept.id

\* C8: recommend is refused exactly for blank keywords with the category
\* SELF_IMPROVEMENT or a blank figure; a refusal issues no request and changes
\* nothing, and a request is issued only for valid input.
ValidationContract ==
    [][/\ (Idle /\ lastDialog' = Alert("validation")) =>
            /\ Blank(keywords)
            /\ category = "SELF_IMPROVEMENT" \/ Blank(philosopherName)
            /\ UNCHANGED <<concepts, selectedConcept, previewImage, loading,
                           showSaved, recPending, imageLoading>>
       /\ (recPending' > recPending \/ (~loading /\ loading')) =>
            ~(Blank(keywords) /\ (category = "SELF_IMPROVEMENT" \/ Blank(philosopherName)))]_vars

\* C8 witness: a refusal for keywords of white space, with a concept selected
\* and its image shown.
RefusedWithSelection ==
    /\ lastDialog = Alert("validation")
    /\ keywords = <<" ">>
    /\ selectedConcept # NULL /\ previewImage # NULL
    /\ concepts # <<>>

\* C9: a recommend that passes validation empties the selection and the
\* preview, and the preview stays empty while nothing is selected.
RecommendInvalidatesPreview ==
    [][/\ (~loading /\ loading') => (selectedConcept' = NULL /\ previewImage' = NULL)
       /\ (selectedConcept = NULL /\ selectedConcept' = NULL /\ previewImage = NULL)
            => previewImage' = NULL]_vars

\* new is old without its entry at some position, whose id is id
RemovedExactly(old, new, id) ==
    IF \E k \in 1..Len(old) : old[k].id = id
    THEN \E k \in 1..Len(old) :
            /\ old[k].id = id
            /\ new = SubSeq(old, 1, k - 1) \o SubSeq(old, k + 1, Len(old))
    ELSE new = old

\* C10: a confirmed delete removes exactly the entry of the id and clears the
\* selection and the preview when the selection has that id; a declined one
\* changes nothing.
RemoveContract ==
    [][DeleteStep =>
         IF lastDialog'.answer
         THEN /\ RemovedExactly(savedConcepts.v, savedConcepts'.v, lastDialog'.id)
              /\ IF selectedConcept # NULL /\ selectedConcept.id = lastDialog'.id
                 THEN selectedConcept' = NULL /\ previewImage' = NULL
                 ELSE UNCHANGED <<selectedConcept, previewImage>>
         ELSE UNCHANGED <<savedConcepts, storage, selectedConcept, previewImage>>]_vars

\* C10 witness: one of three entries was deleted and the selection, another
\* concept with its image shown, was kept.
DeletedOther ==
    /\ lastDialog = Confirm("delete", "c1", TRUE)
    /\ Len(Library) = 2
    /\ selectedConcept # NULL /\ previewImage # NULL

\* C11: once a save, a removal or a clear has run, the slot holds the
\* serialisation of exactly the collection in memory, written whole; a confirmed
\* clear leaves the collection and the slot's array empty; the slot is read
\* once per page, by the mount.
SlotMirrorsLibrary ==
    [][/\ pc' = "running" => storage' = Stringify(savedConcepts')
       /\ (Idle /\ lastDialog' = Confirm("clear", "", TRUE))
              => savedConcepts' = JArr(<<>>) /\ storage' = ArrayText(<<>>, TRUE)
       /\ slotReads' # slotReads => \/ pc = "mount" /\ slotReads' = 1
                                    \/ pc' = "mount" /\ slotReads' = 0
       /\ storage' # storage /\ pc = "running"
              => savedConcepts' # savedConcepts]_vars

\* a clear was confirmed while a concept was selected
ClearedLibrary ==
    /\ lastDialog = Confirm("clear", "", TRUE)
    /\ savedConcepts = JArr(<<>>)
    /\ storage = ArrayText(<<>>, TRUE)
    /\ slotReads = 1
    /\ selectedConcept # NULL

\* the lines of an extracted text
CaptionLines(text) == IF text = <<>> THEN <<>> ELSE Split(text, Newline)

\* the text is unchanged by trim() and by the removal of the outer quotes
Clean(l) == Trim(l) = l /\ StripQuotes(l) = l

\* C12 (as stated): extracting, giving every output line the marker again and
\* extracting once more yields the same text, for every script; a script
\* without a marker line yields the empty text.
ExtractionIdempotent ==
    captions # NoText =>
        /\ ExtractCaptions(Rewrap(captions.text)) = captions.text
        /\ ~Includes(script, Marker) => captions.text = <<>>

\* C12 (amended): the same, for the scripts whose extracted lines neither begin
\* nor end with white space or a quote.
ExtractionIdempotentOnClean ==
    captions # NoText =>
        /\ (\A i \in 1..Len(CaptionLines(captions.text)) :
                 Clean(CaptionLines(captions.text)[i]))
              => ExtractCaptions(Rewrap(captions.text)) = captions.text
        /\ ~Includes(script, Marker) => captions.text = <<>>

\* two caption lines, one of them quoted, were extracted
TwoCleanCaptions ==
    /\ script = <<Marker, "a", Newline, Marker, Quote, "a">>
    /\ captions = Produced(<<"a", Newline, "a">>)

\* the text of a marker line after its first marker, later markers included
AfterMarker(l) ==
    LET i == CHOOSE k \in 1..Len(l) : l[k] = Marker /\ \A j \in 1..(k - 1) : l[j] # Marker
    IN  SubSeq(l, i + 1, Len(l))

\* C13: the extracted text is, for each line that holds the marker and in
\* order, everything that follows the marker on that line (later markers
\* included), trimmed and with at most one quote removed at each end; lines
\* whose cleaned text is empty are dropped, so no line of the output is empty.
CaptionIsWholeRemainder ==
    captions.done =>
        LET lines == SelectSeq(Split(script, Newline), LAMBDA l : Includes(l, Marker))
            cleaned == [i \in 1..Len(lines) |-> StripQuotes(Trim(AfterMarker(lines[i])))]
        IN  /\ captions.text = Join(SelectSeq(cleaned, LAMBDA c : c # <<>>), Newline)
            /\ \A i \in 1..Len(CaptionLines(captions.text)) :
                   CaptionLines(captions.text)[i] # <<>>

\* C14: on one page the audio context is created at most once, whatever the
\* order of the audio previews and their settlements; once created it is never
\* replaced or dropped, and every decode and every playback uses it.
SingleAudioContext ==
    [][/\ contextsCreated' <= 1
       /\ audioContextRef # NoContext => audioContextRef' = audioContextRef
       /\ audioReq'.stage = "decode" => audioReq'.ctx = audioContextRef'
       /\ played' # NoContext => played' = audioContextRef']_vars

\* a second preview is being decoded after a first one was played
SecondPreviewDecoding ==
    /\ played # NoContext
    /\ audioReq.stage = "decode"
    /\ contextsCreated = 1

\* an audio preview ends without playback: generateSpeech failed, returned no
\* data, its data could not be decoded, or decodeAudioData failed
AudioFailureStep ==
    /\ Idle /\ audioReq # NoAudio /\ pc' = "running"
    /\ \/ lastDialog' = Alert("audioError")
       \/ audioReq.stage = "speech" /\ audioReq' = NoAudio

\* a speech request is issued
AudioIssueStep == audioReq = NoAudio /\ audioReq' # NoAudio

\* C18: an audio preview that fails, at the speech request or at the decoding,
\* or that gets no data, ends with audioLoading false and with the selection,
\* the preview image, the concept list and the library as they were, and a
\* further preview can be started; without a selection no speech request is
\* issued.
AudioFailureContained ==
    [][/\ AudioFailureStep =>
              /\ audioLoading' = FALSE /\ audioReq' = NoAudio
              /\ UNCHANGED <<selectedConcept, previewImage, concepts, savedConcepts>>
       /\ AudioIssueStep => selectedConcept # NULL]_vars

\* a preview failed while a concept with its image was shown
AudioFailedWithPreview ==
    /\ lastDialog = Alert("audioError")
    /\ ~audioLoading /\ audioReq = NoAudio
    /\ selectedConcept # NULL /\ previewImage # NULL

\* C19: the voice requested depends on the category alone, 'Kore' for QUOTES
\* and 'Puck' for SELF_IMPROVEMENT, and the text sent is the hook of the concept
\* selected when the preview was started.
VoiceFollowsCategory ==
    [][/\ AudioIssueStep =>
              /\ audioReq'.stage = "speech"
              /\ audioReq'.text = selectedConcept.hook
              /\ category = "QUOTES" => audioReq'.voice = "Kore"
              /\ category = "SELF_IMPROVEMENT" => audioReq'.voice = "Puck"
       /\ (audioReq # NoAudio /\ audioReq' # NoAudio) =>
              audioReq'.text = audioReq.text /\ audioReq'.voice = audioReq.voice]_vars

\* a preview started for one concept under SELF_IMPROVEMENT is pending while
\* another concept is selected
PuckPendingForEarlierConcept ==
    /\ audioReq.stage = "speech" /\ audioReq.voice = "Puck"
    /\ selectedConcept # NULL /\ audioReq.text # selectedConcept.hook

\* a selection issues its image request
SelectStep == BagCardinality(imageReqs') = BagCardinality(imageReqs) + 1

\* the one request a step added
Issued(r) == imageReqs' = imageReqs (+) SetToBag({r})

\* C15 (as stated): a selection sets the selected concept, empties the preview
\* and issues exactly one image request, whose prompt is the prompt of the first
\* scene when the concept has a scene and the title only when it has none.
SelectSendsFirstScenePrompt ==
    [][SelectStep =>
          /\ selectedConcept' # NULL /\ previewImage' = NULL
          /\ Issued([id |-> selectedConcept'.id,
                      prompt |-> IF Len(selectedConcept'.visualScenes) > 0
                                 THEN selectedConcept'.visualScenes[1]
                                 ELSE selectedConcept'.title])]_vars

\* C15 (amended): the same, with the title sent when the concept has no scene
\* or the prompt of its first scene is empty.
SelectSendsPromptOrTitle ==
    [][SelectStep =>
          /\ selectedConcept' # NULL /\ previewImage' = NULL
          /\ Issued([id |-> selectedConcept'.id,
                      prompt |-> IF /\ Len(selectedConcept'.visualScenes) > 0
                                    /\ selectedConcept'.visualScenes[1] # ""
                                 THEN selectedConcept'.visualScenes[1]
                                 ELSE selectedConcept'.title])]_vars

\* the concept with the empty first prompt is selected and its request, sent
\* with the title, is in flight
EmptyPromptSelected ==
    /\ selectedConcept = ConceptE
    /\ previewImage = NULL
    /\ BagIn([id |-> "c2", prompt |-> "E"], imageReqs)

\* the pending image request r ends without its image being stored
ImageFailureStep(r) ==
    /\ BagIn(r, imageReqs)
    /\ imageReqs' = imageReqs (-) SetToBag({r})
    /\ previewImage' # ImageOf(r.prompt)

FrameCount(L, C) == CHOOSE n \in 0..L : 2 * C * n <= L /\ 2 * C * (n + 1) > L

ImageSettleStep(r) == BagIn(r, imageReqs) /\ imageReqs' = imageReqs (-) SetToBag({r})

\* C21: while the image request of the selected concept is in flight the
\* loading indicator stays set: the settlement, by image or by failure, of a
\* request of another, earlier selected concept does not clear it.
LoadingWhileCurrentRequestPending ==
    [][\A r \in RequestPool :
          (/\ ImageSettleStep(r)
           /\ selectedConcept # NULL /\ r.id # selectedConcept.id
           /\ BagIn(ImageRequest(selectedConcept), imageReqs)
           /\ imageLoading)
             => imageLoading']_vars

\* C23: at most one recommendation request is outstanding: none is issued
\* while loading is set, so the concept list is written only by the step that
\* issues a request (which empties it) and by the response to the one request
\* outstanding, which is the latest issued.
SingleRecommendOutstanding ==
    [][/\ recPending' <= 1
       /\ loading => recPending' <= recPending
       /\ recPending' > recPending => ~loading /\ loading'
       /\ concepts' # concepts =>
              \/ recPending = 0 /\ recPending' = 1 /\ concepts' = <<>>
              \/ recPending = 1 /\ recPending' = 0 /\ loading /\ ~loading']_vars

\* a second request is outstanding while the image request of a concept of the
\* first batch is still in flight
SecondRecommendPending ==
    /\ recPending = 1 /\ loading
    /\ concepts = <<>>
    /\ imageReqs # EmptyBag

\* C22: when every issued request settles, each loading flag that is set
\* becomes false again, and a flag that is false stays false until a request of
\* its kind is issued; a set flag always has a request of its kind outstanding.
\* (A component that has crashed has no flags.)
LoadingFlagsClear ==
    /\ [](pc = "running" =>
             /\ loading => recPending > 0
             /\ imageLoading => imageReqs # EmptyBag
             /\ audioLoading => audioReq # NoAudio)
    /\ [][/\ (~loading /\ loading') => recPending' > recPending
          /\ (~imageLoading /\ imageLoading') =>
                 (pc' = "running" => BagCardinality(imageReqs') > BagCardinality(imageReqs))
          /\ (~audioLoading /\ audioLoading') => (audioReq = NoAudio /\ audioReq' # NoAudio)]_vars
    /\ (pc = "running" /\ loading) ~> (~loading \/ pc # "running")
    /\ (pc = "running" /\ imageLoading) ~> (~imageLoading \/ pc # "running")
    /\ (pc = "running" /\ audioLoading) ~> (~audioLoading \/ pc # "running")

\* a recommendation, an image and an audio preview have all settled
AllKindsSettled ==
    /\ pc = "running"
    /\ ~loading /\ ~imageLoading /\ ~audioLoading
    /\ concepts # <<>> /\ previewImage # NULL /\ played # NoContext
    /\ recPending = 0 /\ imageReqs = EmptyBag /\ audioReq = NoAudio

\* C24: the category stored with a saved entry is the category under which the
\* batch of its concept was requested, whatever the active category is when the
\* concept is saved.
SavedUnderBatchCategory ==
    [][(Idle /\ lastDialog' = Alert("saved"))
          => Head(savedConcepts'.v).category = requestedCategory]_vars

====
